---- MODULE Spec2Model ----
(***************************************************************************)
(* Model of streamlit_app.py: the percentage coercion applied to the       *)
(* "Status" column of the Month Strategy sheet, the keyword stage          *)
(* classifier of the Companies tab, and the top-to-bottom render pass of   *)
(* the script (upload check, sheet check, one tab after the other).        *)
(*                                                                         *)
(* Texts are sequences of one-character strings.  Numbers are exact        *)
(* decimals held as integers scaled by Scale, so 50 is 50 * Scale.         *)
(***************************************************************************)
EXTENDS Integers, Sequences, FiniteSets, TLC

VARIABLES
    cell, out, again, dressed, outDressed,   \* one coercion
    row, stage,                              \* one classification
    uploaded, pc, screen, sort_order         \* one render pass

coerceVars == <<cell, out, again, dressed, outDressed>>
stageVars == <<row, stage>>
renderVars == <<uploaded, pc, screen, sort_order>>
vars == <<coerceVars, stageVars, renderVars>>

\* Longest text cell drawn as an input.
MaxLen == 4
\* Integer cells are drawn from -MaxInt .. MaxInt.
MaxInt == 101
\* Float cells are drawn in quarters, from -MaxQuarter/4 to MaxQuarter/4.
MaxQuarter == 6
\* Most words in the Status text of a company record.
MaxWords == 2
\* Most rows of the Month Strategy sheet, where its rows are varied.
MaxRows == 2

RECURSIVE Pow10(_)
Pow10(n) == IF n = 0 THEN 1 ELSE 10 * Pow10(n - 1)

\* One unit: a text of MaxLen characters holds at most MaxLen - 1 decimals.
Scale == Pow10(MaxLen - 1)

\* The characters text cells are drawn from.
Chars == {"0", "1", "5", ".", ",", "%", " ", "-", "n", "a"}

Texts == UNION {[1..n -> Chars] : n \in 0..MaxLen}

---------------------------------------------------------------------------
(* Values *)

NaN == [k |-> "nan"]
ParseError == [k |-> "fail"]
Num(v) == [k |-> "num", v |-> v]
Pending == [k |-> "pending"]

NullCell == [k |-> "null"]
StrCell(s) == [k |-> "str", s |-> s]
IntCell(n) == [k |-> "int", n |-> n]
FloatCell(v) == [k |-> "float", v |-> v]

Cells ==
    {NullCell}
    \cup {StrCell(s) : s \in Texts}
    \cup {IntCell(n) : n \in (0 - MaxInt)..MaxInt}
    \cup {FloatCell((q * Scale) \div 4) : q \in (0 - MaxQuarter)..MaxQuarter}

---------------------------------------------------------------------------
(* Python text primitives *)

DigitChars == <<"0", "1", "2", "3", "4", "5", "6", "7", "8", "9">>

IsDigit(c) == \E i \in 1..10 : DigitChars[i] = c

DigitVal(c) == (CHOOSE i \in 1..10 : DigitChars[i] = c) - 1

IsSpace(c) == c = " "

RECURSIVE LStrip(_)
LStrip(s) == IF s # <<>> /\ IsSpace(Head(s)) THEN LStrip(Tail(s)) ELSE s

RECURSIVE RStrip(_)
RStrip(s) ==
    IF s # <<>> /\ IsSpace(s[Len(s)]) THEN RStrip(SubSeq(s, 1, Len(s) - 1)) ELSE s

\* str.strip()
Strip(s) == RStrip(LStrip(s))

\* str.replace(a, b) for one-character a and b
Replace(s, a, b) == [i \in 1..Len(s) |-> IF s[i] = a THEN b ELSE s[i]]

\* str.replace(a, "")
RECURSIVE Remove(_, _)
Remove(s, a) ==
    IF s = <<>> THEN <<>>
    ELSE IF Head(s) = a THEN Remove(Tail(s), a)
    ELSE <<Head(s)>> \o Remove(Tail(s), a)

\* str.endswith(c)
EndsWith(s, c) == s # <<>> /\ s[Len(s)] = c

RECURSIVE NatDigits(_)
NatDigits(n) ==
    IF n < 10 THEN <<DigitChars[n + 1]>>
    ELSE NatDigits(n \div 10) \o <<DigitChars[(n % 10) + 1]>>

\* str(n) of an int
IntStr(n) == IF n < 0 THEN <<"-">> \o NatDigits(0 - n) ELSE NatDigits(n)

RECURSIVE FracDigits(_, _)
FracDigits(f, unit) ==
    IF f = 0 \/ unit = 1 THEN <<>>
    ELSE <<DigitChars[(f \div (unit \div 10)) + 1]>>
         \o FracDigits(f % (unit \div 10), unit \div 10)

\* str(x) of a float: sign, integer part, point, decimals ("50.0", "0.5").
\* This is the positional form, the one repr gives for 1e-4 <= |x| < 1e16.
FloatStr(v) ==
    LET a == IF v < 0 THEN 0 - v ELSE v
        fd == FracDigits(a % Scale, Scale)
    IN  (IF v < 0 THEN <<"-">> ELSE <<>>)
        \o NatDigits(a \div Scale) \o <<".">>
        \o (IF fd = <<>> THEN <<"0">> ELSE fd)

RECURSIVE DigitsVal(_)
DigitsVal(s) ==
    IF s = <<>> THEN 0 ELSE 10 * DigitsVal(SubSeq(s, 1, Len(s) - 1)) + DigitVal(s[Len(s)])

AllDigits(s) == \A i \in 1..Len(s) : IsDigit(s[i])

\* The value of decimals d as a fraction of one unit.
FracVal(d) == (DigitsVal(d) * Scale) \div Pow10(Len(d))

\* float(s): surrounding whitespace is ignored; an optional sign, then either
\* "nan" or a decimal numeral with at least one digit and at most one point.
\* Anything else raises ValueError.
PyFloat(s) ==
    LET t == Strip(s)
        signed == t # <<>> /\ Head(t) \in {"+", "-"}
        neg == signed /\ Head(t) = "-"
        u == IF signed THEN Tail(t) ELSE t
        dots == {i \in 1..Len(u) : u[i] = "."}
    IN  IF u = <<"n", "a", "n">> THEN NaN
        ELSE IF Cardinality(dots) > 1 THEN ParseError
        ELSE LET p == IF dots = {} THEN Len(u) + 1 ELSE CHOOSE i \in dots : TRUE
                 ip == SubSeq(u, 1, p - 1)
                 fp == SubSeq(u, p + 1, Len(u))
             IN  IF ~AllDigits(ip) \/ ~AllDigits(fp) \/ (ip = <<>> /\ fp = <<>>)
                 THEN ParseError
                 ELSE LET m == DigitsVal(ip) * Scale + FracVal(fp)
                      IN  Num(IF neg THEN 0 - m ELSE m)

---------------------------------------------------------------------------
(* coerce_to_percentage.parse_val *)

\* pd.isna(v)
IsNa(v) == v.k = "null"

\* str(v)
PyStr(v) ==
    CASE v.k = "str" -> v.s
      [] v.k = "int" -> IntStr(v.n)
      [] v.k = "float" -> FloatStr(v.v)

\* a < b on floats: false whenever either side is NaN
Lt(a, b) == a.k = "num" /\ b.k = "num" /\ a.v < b.v

\* a <= b on floats: false whenever either side is NaN
Le(a, b) == a.k = "num" /\ b.k = "num" /\ a.v <= b.v

\* min(a, b): the first argument unless the second is smaller
PyMin(a, b) == IF Lt(b, a) THEN b ELSE a

\* max(a, b): the first argument unless the second is greater
PyMax(a, b) == IF Lt(a, b) THEN b ELSE a

\* s = str(v).strip(); s = s.replace(",", ".").replace(" ", "")
Clean(v) == Remove(Replace(Strip(PyStr(v)), ",", "."), " ")

\* if s.endswith("%"): s = s[:-1]
DropPercent(s) == IF EndsWith(s, "%") THEN SubSeq(s, 1, Len(s) - 1) ELSE s

\* The fraction test with both ends excluded.
ScaleFractionOpen(num) ==
    IF Lt(Num(0), num) /\ Lt(num, Num(Scale)) THEN Num(num.v * 100) ELSE num

\* The fraction test taken over the whole percentage range.
ScaleFractionWide(num) ==
    IF Le(Num(0), num) /\ Le(num, Num(100 * Scale)) THEN Num(num.v * 100) ELSE num

\* if 0 <= num <= 1: num = num * 100
ScaleFraction(num) ==
    IF Le(Num(0), num) /\ Le(num, Num(Scale)) THEN Num(num.v * 100) ELSE num

\* The clamp without its upper end.
ClampLowOnly(num) == PyMax(Num(0), num)

\* The clamp with min and max exchanged.
ClampSwapped(num) == PyMin(Num(0), PyMax(Num(100 * Scale), num))

\* num = max(0, min(100, num))
Clamp(num) == PyMax(Num(0), PyMin(Num(100 * Scale), num))

\* parse_val with the fraction test skipped for a text that ends in "%".
parse_val_percent_literal(v) ==
    IF IsNa(v) THEN NaN
    ELSE LET num == PyFloat(DropPercent(Clean(v)))
         IN  IF num = ParseError THEN NaN
             ELSE IF EndsWith(Clean(v), "%") THEN Clamp(num)
             ELSE Clamp(ScaleFraction(num))

parse_val(v) ==
    IF IsNa(v) THEN NaN
    ELSE LET num == PyFloat(DropPercent(Clean(v)))
         IN  IF num = ParseError THEN NaN
             ELSE Clamp(ScaleFraction(num))

---------------------------------------------------------------------------
(* The coercion of one cell, of the text of its result, and of the same    *)
(* number written differently.                                             *)

InsertAt(s, i, c) == SubSeq(s, 1, i) \o <<c>> \o SubSeq(s, i + 1, Len(s))

\* The ways of writing text s this model draws: the decimal point as a comma
\* or not, one space added at any place or none, and a trailing "%" or none,
\* itself with a space before it and after it or not.
Dressings(s) ==
    LET commas == {s, Replace(s, ".", ",")}
        spaced == commas \cup {InsertAt(t, i, " ") : t \in commas, i \in 0..Len(s)}
        tails == {<<>>, <<"%">>, <<" ", "%">>, <<"%", " ">>, <<" ", "%", " ">>}
    IN  {t \o e : t \in spaced, e \in tails}

IsNumericText(v) == v.k = "str" /\ PyFloat(v.s).k = "num"

CoerceIdle ==
    /\ cell = NullCell
    /\ out = Pending
    /\ again = Pending
    /\ dressed = Pending
    /\ outDressed = Pending

NoUpload == [k |-> "none"]

RenderIdle ==
    /\ uploaded = NoUpload
    /\ pc = "idle"
    /\ screen = <<>>
    /\ sort_order = "unset"

StageIdle ==
    /\ row = [columns |-> {}, Status |-> [k |-> "null"], Comments |-> [k |-> "null"]]
    /\ stage = Pending

Init ==
    /\ cell \in Cells
    /\ out = Pending
    /\ again = Pending
    /\ dressed = Pending
    /\ outDressed = Pending
    /\ StageIdle
    /\ RenderIdle

\* coerce(v)
Coerce ==
    /\ out = Pending
    /\ out' = parse_val(cell)
    /\ UNCHANGED <<cell, again, dressed, outDressed, stageVars, renderVars>>

\* coerce(str(coerce(v))), for a result that is a number
Recoerce ==
    /\ out.k = "num"
    /\ again = Pending
    /\ again' = parse_val(StrCell(FloatStr(out.v)))
    /\ UNCHANGED <<cell, out, dressed, outDressed, stageVars, renderVars>>

\* coerce of a numeric text written another way
CoerceDressed ==
    /\ out # Pending
    /\ dressed = Pending
    /\ IsNumericText(cell)
    /\ \E d \in Dressings(cell.s) :
          /\ dressed' = StrCell(d)
          /\ outDressed' = parse_val(StrCell(d))
    /\ UNCHANGED <<cell, out, again, stageVars, renderVars>>

Next == Coerce \/ Recoerce \/ CoerceDressed

Spec == Init /\ [][Next]_vars

---------------------------------------------------------------------------
(* infer_stage: the stage of one company record *)

LowerChars ==
    <<"a", "b", "c", "d", "e", "f", "g", "h", "i", "j", "k", "l", "m",
      "n", "o", "p", "q", "r", "s", "t", "u", "v", "w", "x", "y", "z">>

UpperChars ==
    <<"A", "B", "C", "D", "E", "F", "G", "H", "I", "J", "K", "L", "M",
      "N", "O", "P", "Q", "R", "S", "T", "U", "V", "W", "X", "Y", "Z">>

LowerChar(c) ==
    IF \E i \in 1..26 : UpperChars[i] = c
    THEN LowerChars[CHOOSE i \in 1..26 : UpperChars[i] = c]
    ELSE c

UpperChar(c) ==
    IF \E i \in 1..26 : LowerChars[i] = c
    THEN UpperChars[CHOOSE i \in 1..26 : LowerChars[i] = c]
    ELSE c

\* str.lower()
Lower(s) == [i \in 1..Len(s) |-> LowerChar(s[i])]

\* str.capitalize()
Capitalize(s) == [i \in 1..Len(s) |-> IF i = 1 THEN UpperChar(s[i]) ELSE LowerChar(s[i])]

\* w in t
Contains(t, w) ==
    \E i \in 1..(Len(t) - Len(w) + 1) :
        /\ t[i] = w[1]
        /\ SubSeq(t, i, i + Len(w) - 1) = w

stage_map ==
    <<<<"l", "e", "a", "d">>,
      <<"c", "o", "n", "t", "a", "c", "t", "e", "d">>,
      <<"m", "e", "e", "t", "i", "n", "g">>,
      <<"p", "r", "o", "p", "o", "s", "a", "l">>,
      <<"n", "e", "g", "o", "t", "i", "a", "t", "i", "o", "n">>,
      <<"w", "a", "i", "t", "i", "n", "g">>,
      <<"c", "o", "n", "t", "r", "a", "c", "t">>,
      <<"w", "o", "n">>,
      <<"l", "o", "s", "t">>>>

Negotiation == <<"N", "e", "g", "o", "t", "i", "a", "t", "i", "o", "n">>

Unspecified == <<"U", "n", "s", "p", "e", "c", "i", "f", "i", "e", "d">>

\* text = ""; for col in ["Status", "Comments"]: if the column exists and the
\* field is not null, text += " " + str(field).lower()
RowText(r) ==
    LET part(col) ==
            IF col \in r.columns /\ ~IsNa(r[col])
            THEN <<" ">> \o Lower(PyStr(r[col]))
            ELSE <<>>
    IN  part("Status") \o part("Comments")

\* for s in stage_map: if s in text: return s.capitalize()
RECURSIVE ScanStages(_, _)
ScanStages(text, i) ==
    IF i > Len(stage_map) THEN Unspecified
    ELSE IF Contains(text, stage_map[i]) THEN Capitalize(stage_map[i])
    ELSE ScanStages(text, i + 1)

\* infer_stage without the contract / negotiation rule.
infer_stage_scan_only(r) == ScanStages(RowText(r), 1)

infer_stage(r) ==
    LET text == RowText(r)
    IN  IF Contains(text, stage_map[7]) \/ Contains(text, stage_map[5])
        THEN Negotiation
        ELSE ScanStages(text, 1)

\* The words the Status and Comments texts of a record are made of: the
\* keywords, a word with no keyword, a keyword in capitals and a word that
\* holds a keyword inside it.
Words ==
    {stage_map[i] : i \in 1..Len(stage_map)}
    \cup {<<"d", "e", "a", "l">>,
          <<"W", "O", "N">>,
          <<"m", "i", "s", "l", "e", "a", "d", "i", "n", "g">>}

RECURSIVE JoinWords(_)
JoinWords(ws) ==
    IF ws = <<>> THEN <<>>
    ELSE IF Len(ws) = 1 THEN ws[1]
    ELSE ws[1] \o <<" ">> \o JoinWords(Tail(ws))

StatusCells ==
    {NullCell} \cup {StrCell(JoinWords(ws)) : ws \in UNION {[1..n -> Words] : n \in 0..MaxWords}}

CommentCells ==
    {NullCell, StrCell(<<>>)} \cup {StrCell(w) : w \in Words}

\* A record of the Companies sheet, with the columns the sheet has: a column
\* that is not there gives no value (row.get(col) is None).
Rows ==
    {[columns |-> cols,
      Status |-> IF "Status" \in cols THEN s ELSE NullCell,
      Comments |-> IF "Comments" \in cols THEN m ELSE NullCell] :
        cols \in SUBSET {"Status", "Comments"}, s \in StatusCells, m \in CommentCells}

\* A value of the "Stage" column.
Label(s) == [k |-> "label", s |-> s]

InitStage ==
    /\ row \in Rows
    /\ stage = Pending
    /\ CoerceIdle
    /\ RenderIdle

\* comp["Stage"] = comp.apply(infer_stage, axis=1), for one record
InferStage ==
    /\ stage = Pending
    /\ stage' = Label(infer_stage(row))
    /\ UNCHANGED <<row, coerceVars, renderVars>>

NextStage == InferStage

SpecStage == InitStage /\ [][NextStage]_vars

---------------------------------------------------------------------------
(* The render pass: the script runs once from top to bottom for an upload. *)
(* What it has put on the page is the sequence screen.  Column headers    *)
(* are texts cut at their spaces: "Amount (MAD)" is                        *)
(* <<"Amount", " ", "(MAD)">>, so Strip removes the spaces around a name   *)
(* and keeps those inside it.                                              *)

MonthStrategy == "Month Strategy"
Reservations == "Reservations"
Meetings == "Meetings"

required_sheets == <<MonthStrategy, Reservations, Meetings>>

\* ms.columns = [c.strip() for c in ms.columns] without the strip.
NormalizeColumnsAsIs(cols) == cols

\* ms.columns = [c.strip() for c in ms.columns]
NormalizeColumns(cols) == [j \in 1..Len(cols) |-> Strip(cols[j])]

\* col in ms.columns
HasColumn(cols, name) == \E j \in 1..Len(cols) : cols[j] = name

ColIndex(cols, name) == CHOOSE j \in 1..Len(cols) : cols[j] = name

\* for col in expected_cols: if col not in ms.columns: st.error(...); st.stop()
\* The first required column that is not there (0: none).
RECURSIVE FirstMissing(_, _, _)
FirstMissing(cols, expected, i) ==
    IF i > Len(expected) THEN 0
    ELSE IF ~HasColumn(cols, expected[i]) THEN i
    ELSE FirstMissing(cols, expected, i + 1)

\* df[name] of row i
Field(sheet, cols, i, name) == sheet.rows[i][ColIndex(cols, name)]

NotNa(v) == ~IsNa(v)

---------------------------------------------------------------------------
(* Tab 1: Month Strategy *)

expected_cols == << <<"Workstream">>, <<"Status">>, <<"Comments">>, <<"Deadline">> >>

SortOrders == {"Workstream (A-Z)", "Status (High -> Low)", "Status (Low -> High)"}

\* The place of a letter in the character order.
Ord(c) == CHOOSE i \in 1..52 : (UpperChars \o LowerChars)[i] = c

\* a < b on str
RECURSIVE StrLess(_, _)
StrLess(a, b) ==
    IF b = <<>> THEN FALSE
    ELSE IF a = <<>> THEN TRUE
    ELSE IF Head(a) = Head(b) THEN StrLess(Tail(a), Tail(b))
    ELSE Ord(Head(a)) < Ord(Head(b))

\* f"{val:.0f}": to the nearest integer, a half to the even one
RoundHalfEven(v) ==
    LET q == v \div Scale
        r == v % Scale
    IN  IF 2 * r > Scale \/ (2 * r = Scale /\ q % 2 = 1) THEN q + 1 ELSE q

\* str(r["Workstream"])
WsStr(v) == IF IsNa(v) THEN <<"n", "a", "n">> ELSE PyStr(v)

\* ms with ms["Status_%"] = coerce_to_percentage(ms["Status"])
MsFrame(sheet, cols) ==
    [i \in 1..Len(sheet.rows) |->
        [idx |-> i,
         Workstream |-> Field(sheet, cols, i, <<"Workstream">>),
         Status |-> Field(sheet, cols, i, <<"Status">>),
         Comments |-> Field(sheet, cols, i, <<"Comments">>),
         Deadline |-> Field(sheet, cols, i, <<"Deadline">>),
         pct |-> parse_val(Field(sheet, cols, i, <<"Status">>))]]

\* The lines of one row in "Progress per Workstream".
RowProgress(r) ==
    IF r.pct = NaN
    THEN << [tab |-> "Workstreams", kind |-> "text_no_pct", idx |-> r.idx,
             ws |-> WsStr(r.Workstream)] >>
    ELSE << [tab |-> "Workstreams", kind |-> "text_pct", idx |-> r.idx,
             ws |-> WsStr(r.Workstream), shown |-> RoundHalfEven(r.pct.v)],
            [tab |-> "Workstreams", kind |-> "progress", idx |-> r.idx,
             hundredths |-> r.pct.v \div Scale] >>

RECURSIVE ProgressList(_)
ProgressList(frame) ==
    IF frame = <<>> THEN <<>> ELSE RowProgress(Head(frame)) \o ProgressList(Tail(frame))

\* ms.dropna(subset=["Status_%", "Workstream"])
PlotFrame(frame) == SelectSeq(frame, LAMBDA r : r.pct # NaN /\ NotNa(r.Workstream))

BarChart(frame) ==
    IF PlotFrame(frame) # <<>>
    THEN << [tab |-> "Workstreams", kind |-> "bar_chart", rows |-> PlotFrame(frame)] >>
    ELSE << [tab |-> "Workstreams", kind |-> "info"] >>

SortKeyIsNa(mode, r) ==
    IF mode = "Workstream (A-Z)" THEN IsNa(r.Workstream) ELSE r.pct = NaN

SortLess(mode, a, b) ==
    CASE mode = "Workstream (A-Z)" -> StrLess(PyStr(a.Workstream), PyStr(b.Workstream))
      [] mode = "Status (High -> Low)" -> a.pct.v > b.pct.v
      [] OTHER -> a.pct.v < b.pct.v

RECURSIVE InsertStable(_, _, _)
InsertStable(sorted, x, mode) ==
    IF sorted = <<>> THEN <<x>>
    ELSE IF SortLess(mode, x, Head(sorted)) THEN <<x>> \o sorted
    ELSE <<Head(sorted)>> \o InsertStable(Tail(sorted), x, mode)

RECURSIVE StableSort(_, _)
StableSort(s, mode) ==
    IF s = <<>> THEN <<>>
    ELSE InsertStable(StableSort(SubSeq(s, 1, Len(s) - 1), mode), s[Len(s)], mode)

\* ms.sort_values(key, ascending=..., kind="stable"): rows with no key last
SortValues(frame, mode) ==
    StableSort(SelectSeq(frame, LAMBDA r : ~SortKeyIsNa(mode, r)), mode)
    \o SelectSeq(frame, LAMBDA r : SortKeyIsNa(mode, r))

ColumnError(tab, sheetName, col) ==
    [tab |-> tab, kind |-> "error", sheet |-> sheetName, column |-> col]

\* What tab 1 puts on the page for a sheet and a choice of "Sort by", and
\* whether it ends in st.stop().
Tab1(sheet, sort) ==
    LET cols == NormalizeColumns(sheet.columns)
        miss == FirstMissing(cols, expected_cols, 1)
        head == << [tab |-> "Workstreams", kind |-> "subheader"] >>
    IN  IF miss # 0
        THEN [stop |-> TRUE,
              elems |-> head \o <<ColumnError("Workstreams", MonthStrategy, expected_cols[miss])>>]
        ELSE LET frame == MsFrame(sheet, cols)
             IN  [stop |-> FALSE,
                  elems |->
                      head
                      \o << [tab |-> "Workstreams", kind |-> "write"] >>
                      \o ProgressList(frame)
                      \o BarChart(frame)
                      \o << [tab |-> "Workstreams", kind |-> "radio", choice |-> sort] >>
                      \o << [tab |-> "Workstreams", kind |-> "dataframe",
                             rows |-> SortValues(frame, sort)] >>]

---------------------------------------------------------------------------
(* Tab 3: Reservations *)

required_cols == << <<"Company">>, <<"Nights">>, <<"Amount", " ", "(MAD)">>, <<"City">> >>

\* pd.to_numeric(x, errors="coerce")
ToNumeric(v) ==
    IF IsNa(v) THEN NaN
    ELSE LET f == PyFloat(PyStr(v)) IN IF f = ParseError THEN NaN ELSE f

ResFrame(sheet, cols) ==
    [i \in 1..Len(sheet.rows) |->
        [idx |-> i,
         Company |-> Field(sheet, cols, i, <<"Company">>),
         Nights |-> ToNumeric(Field(sheet, cols, i, <<"Nights">>)),
         Amount |-> ToNumeric(Field(sheet, cols, i, <<"Amount", " ", "(MAD)">>)),
         City |-> Field(sheet, cols, i, <<"City">>)]]

\* sorted(column.dropna().unique().tolist()), as a set
Options(column) == {column[i] : i \in {j \in 1..Len(column) : NotNa(column[j])}}

\* Tab 3 that reports a missing column and goes on.
Tab3NoStop(sheet) ==
    LET cols == NormalizeColumns(sheet.columns)
        miss == FirstMissing(cols, required_cols, 1)
        head == << [tab |-> "Reservations", kind |-> "subheader"] >>
    IN  [stop |-> FALSE,
         elems |-> IF miss # 0
                   THEN head \o <<ColumnError("Reservations", Reservations, required_cols[miss])>>
                   ELSE head]

\* What tab 3 puts on the page, with both filters left on every value.
Tab3(sheet) ==
    LET cols == NormalizeColumns(sheet.columns)
        miss == FirstMissing(cols, required_cols, 1)
        head == << [tab |-> "Reservations", kind |-> "subheader"] >>
    IN  IF miss # 0
        THEN [stop |-> TRUE,
              elems |-> head \o <<ColumnError("Reservations", Reservations, required_cols[miss])>>]
        ELSE LET frame == ResFrame(sheet, cols)
                 companies == [i \in 1..Len(frame) |-> frame[i].Company]
                 cities == [i \in 1..Len(frame) |-> frame[i].City]
                 res_f == SelectSeq(frame, LAMBDA r : NotNa(r.Company) /\ NotNa(r.City))
             IN  [stop |-> FALSE,
                  elems |->
                      head
                      \o << [tab |-> "Reservations", kind |-> "multiselect",
                             options |-> Options(companies)],
                            [tab |-> "Reservations", kind |-> "multiselect",
                             options |-> Options(cities)] >>
                      \o (IF res_f # <<>>
                          THEN << [tab |-> "Reservations", kind |-> "bar_chart", rows |-> res_f] >>
                          ELSE << [tab |-> "Reservations", kind |-> "info"] >>)
                      \o << [tab |-> "Reservations", kind |-> "write"],
                            [tab |-> "Reservations", kind |-> "dataframe", rows |-> res_f] >>]

---------------------------------------------------------------------------
(* Tab 4: Meetings *)

meeting_cols == << <<"Company">> >>

\* status_map, and "Other" for what it does not hold
StatusLabel(s) ==
    CASE s = <<"d", "o", "n", "e">> -> "Done"
      [] s = <<"c", "o", "m", "p", "l", "e", "t", "e", "d">> -> "Done"
      [] s = <<"c", "o", "n", "f", "i", "r", "m">> -> "Confirmed"
      [] s = <<"c", "o", "n", "f", "i", "r", "m", "e", "d">> -> "Confirmed"
      [] s = <<"p", "e", "n", "d", "i", "n", "g">> -> "Pending"
      [] s = <<"u", "n", "s", "p", "e", "c", "i", "f", "i", "e", "d">> -> "Unspecified"
      [] s = <<>> -> "Unspecified"
      [] OTHER -> "Other"

\* meet["Status"].fillna("Unspecified").astype(str).str.strip().str.lower(),
\* then .map(status_map).fillna("Other")
NormalizeStatus(v) ==
    IF IsNa(v) THEN "Unspecified" ELSE StatusLabel(Lower(Strip(PyStr(v))))

MeetFrame(sheet, cols) ==
    [i \in 1..Len(sheet.rows) |->
        [idx |-> i,
         Company |-> Field(sheet, cols, i, <<"Company">>),
         Status |-> IF HasColumn(cols, <<"Status">>)
                    THEN NormalizeStatus(Field(sheet, cols, i, <<"Status">>))
                    ELSE "Unspecified"]]

\* What tab 4 puts on the page, with both filters left on every value.
Tab4(sheet) ==
    LET cols == NormalizeColumns(sheet.columns)
        miss == FirstMissing(cols, meeting_cols, 1)
        head == << [tab |-> "Meetings", kind |-> "subheader"] >>
    IN  IF miss # 0
        THEN [stop |-> TRUE,
              elems |-> head \o <<ColumnError("Meetings", Meetings, meeting_cols[miss])>>]
        ELSE LET frame == MeetFrame(sheet, cols)
                 companies == [i \in 1..Len(frame) |-> frame[i].Company]
                 meet_f == SelectSeq(frame, LAMBDA r : NotNa(r.Company))
             IN  [stop |-> FALSE,
                  elems |->
                      head
                      \o << [tab |-> "Meetings", kind |-> "multiselect",
                             options |-> Options(companies)],
                            [tab |-> "Meetings", kind |-> "multiselect_status",
                             statuses |-> {frame[i].Status : i \in 1..Len(frame)}] >>
                      \o (IF meet_f # <<>>
                          THEN << [tab |-> "Meetings", kind |-> "bar_chart", rows |-> meet_f],
                                  [tab |-> "Meetings", kind |-> "stacked_chart", rows |-> meet_f],
                                  [tab |-> "Meetings", kind |-> "pie_chart", rows |-> meet_f] >>
                          ELSE <<>>)
                      \o << [tab |-> "Meetings", kind |-> "write"],
                            [tab |-> "Meetings", kind |-> "dataframe", rows |-> meet_f] >>]

---------------------------------------------------------------------------
(* The uploads the pass is run on *)

Unreadable == [k |-> "file", readable |-> FALSE]

Workbook(sheets) == [k |-> "file", readable |-> TRUE, sheets |-> sheets]

PadStyles == {"none", "lead", "trail", "both"}

Pad(h, style) ==
    CASE style = "lead" -> <<" ">> \o h
      [] style = "trail" -> h \o <<" ">>
      [] style = "both" -> <<" ">> \o h \o <<" ", " ">>
      [] OTHER -> h

\* Sequence s without the places in drop.
RECURSIVE Without(_, _, _)
Without(s, drop, i) ==
    IF i > Len(s) THEN <<>>
    ELSE (IF i \in drop THEN <<>> ELSE <<s[i]>>) \o Without(s, drop, i + 1)

\* A sheet with the named columns, less those in drop, its headers padded.
Sheet(names, rows, drop, style) ==
    [columns |-> [j \in 1..(Len(names) - Cardinality(drop)) |->
                     Pad(Without(names, drop, 1)[j], style)],
     rows |-> [i \in 1..Len(rows) |-> Without(rows[i], drop, 1)]]

WsA == StrCell(<<"A">>)
WsB == StrCell(<<"B">>)

\* Month Strategy rows: Workstream, Status, Comments, Deadline.
MsRowKinds ==
    {<<w, s, NullCell, NullCell>> :
        w \in {NullCell, WsA, WsB},
        s \in {NullCell,
               StrCell(<<"a", "b", "c">>),
               StrCell(<<"0">>),
               StrCell(<<"5", "0", " ", "%">>),
               StrCell(<<",", "5">>),
               IntCell(7)}}

MsRowLists == UNION {[1..n -> MsRowKinds] : n \in 0..MaxRows}

MsRowsFew ==
    {<<>>,
     << <<WsB, StrCell(<<"5", "0", " ", "%">>), NullCell, NullCell>>,
        <<WsA, StrCell(<<"a", "b", "c">>), NullCell, NullCell>> >>}

\* Reservations rows: Company, Nights, Amount (MAD), City.
ResRowsFew ==
    {<<>>,
     << <<StrCell(<<"X">>), IntCell(2), StrCell(<<"1", "5", "0">>), StrCell(<<"R">>)>>,
        <<NullCell, StrCell(<<"a">>), NullCell, StrCell(<<"R">>)>> >>}

\* Meetings rows: Company, Status.
MeetRowsFew ==
    {<<>>,
     << <<StrCell(<<"X">>), StrCell(<<"D", "o", "n", "e", " ">>)>>,
        <<NullCell, NullCell>>,
        <<StrCell(<<"Y">>), StrCell(<<"l", "a", "t", "e">>)>> >>}

MsSheets(style) ==
    {Sheet(expected_cols, rows, drop, style) :
        rows \in MsRowsFew, drop \in {{}, {1}, {2}, {3}, {4}, {2, 4}}}

ResSheets(style) ==
    {Sheet(required_cols, rows, drop, style) :
        rows \in ResRowsFew, drop \in {{}, {1}, {2}, {3}, {4}, {1, 3}}}

MeetSheets(style) ==
    {Sheet(<< <<"Company">>, <<"Status">> >>, rows, drop, style) :
        rows \in MeetRowsFew, drop \in {{}, {1}, {2}}}

\* Well-formed sheets, Month Strategy with every list of rows.
MsSheetsByRows == {Sheet(expected_cols, rows, {}, "none") : rows \in MsRowLists}

ResSheetPlain ==
    Sheet(required_cols,
          << <<StrCell(<<"X">>), IntCell(2), StrCell(<<"1", "5", "0">>), StrCell(<<"R">>)>> >>,
          {}, "none")

MeetSheetPlain ==
    Sheet(<< <<"Company">>, <<"Status">> >>,
          << <<StrCell(<<"X">>), StrCell(<<"D", "o", "n", "e", " ">>)>> >>,
          {}, "none")

AllSheets == {MonthStrategy, Reservations, Meetings}

\* The workbook that holds the sheets named in S: a, b and c where named.
WorkbookWith(S, a, b, c) ==
    Workbook([n \in S |-> CASE n = MonthStrategy -> a
                            [] n = Reservations -> b
                            [] OTHER -> c])

\* Uploads that differ in their structure: no file, an unreadable file, any
\* of the sheets missing, columns missing, headers padded.
StructureUpload(f) ==
    \/ f \in {NoUpload, Unreadable}
    \/ \E S \in SUBSET AllSheets, style \in PadStyles :
          \E a \in IF MonthStrategy \in S THEN MsSheets(style) ELSE {<<>>},
             b \in IF Reservations \in S THEN ResSheets(style) ELSE {<<>>},
             c \in IF Meetings \in S THEN MeetSheets(style) ELSE {<<>>} :
              f = WorkbookWith(S, a, b, c)

\* Well-formed uploads that differ in the rows of Month Strategy.
RowUpload(f) ==
    \E a \in MsSheetsByRows :
        f = WorkbookWith(AllSheets, a, ResSheetPlain, MeetSheetPlain)

---------------------------------------------------------------------------
(* The pass *)

\* st.title(...); uploaded = st.file_uploader(...)
InitRender ==
    /\ (StructureUpload(uploaded) \/ RowUpload(uploaded))
    /\ pc = "upload"
    /\ screen = << [tab |-> "page", kind |-> "title"],
                   [tab |-> "page", kind |-> "file_uploader"] >>
    /\ sort_order = "unset"
    /\ CoerceIdle
    /\ StageIdle

\* if uploaded is None: st.info(...); st.stop()
CheckUpload ==
    /\ pc = "upload"
    /\ IF uploaded.k = "none"
       THEN /\ screen' = Append(screen, [tab |-> "page", kind |-> "info"])
            /\ pc' = "stopped"
       ELSE /\ screen' = screen
            /\ pc' = "sheets"
    /\ UNCHANGED <<uploaded, sort_order, coerceVars, stageVars>>

\* missing = [s for s in required_sheets if s not in available]
MissingSheets(file) == SelectSeq(required_sheets, LAMBDA s : s \notin DOMAIN file.sheets)

\* The try block that reads the workbook, then st.tabs(...)
LoadSheets ==
    /\ pc = "sheets"
    /\ IF ~uploaded.readable
       THEN /\ screen' = Append(screen, [tab |-> "page", kind |-> "error_read"])
            /\ pc' = "stopped"
       ELSE IF MissingSheets(uploaded) # <<>>
       THEN /\ screen' = Append(screen, [tab |-> "page", kind |-> "error_sheets",
                                         missing |-> MissingSheets(uploaded)])
            /\ pc' = "stopped"
       ELSE /\ screen' = Append(screen, [tab |-> "page", kind |-> "tabs"])
            /\ pc' = "tab1"
    /\ UNCHANGED <<uploaded, sort_order, coerceVars, stageVars>>

\* with tab1: ...
RenderTab1 ==
    /\ pc = "tab1"
    /\ \E so \in SortOrders :
          LET r == Tab1(uploaded.sheets[MonthStrategy], so)
          IN  /\ screen' = screen \o r.elems
              /\ pc' = IF r.stop THEN "stopped" ELSE "tab3"
              /\ sort_order' = IF r.stop THEN sort_order ELSE so
    /\ UNCHANGED <<uploaded, coerceVars, stageVars>>

\* with tab3: ...
RenderTab3 ==
    /\ pc = "tab3"
    /\ LET r == Tab3(uploaded.sheets[Reservations])
       IN  /\ screen' = screen \o r.elems
           /\ pc' = IF r.stop THEN "stopped" ELSE "tab4"
    /\ UNCHANGED <<uploaded, sort_order, coerceVars, stageVars>>

\* with tab4: ...
RenderTab4 ==
    /\ pc = "tab4"
    /\ LET r == Tab4(uploaded.sheets[Meetings])
       IN  /\ screen' = screen \o r.elems
           /\ pc' = IF r.stop THEN "stopped" ELSE "done"
    /\ UNCHANGED <<uploaded, sort_order, coerceVars, stageVars>>

NextRender == CheckUpload \/ LoadSheets \/ RenderTab1 \/ RenderTab3 \/ RenderTab4

SpecRender == InitRender /\ [][NextRender]_vars

---------------------------------------------------------------------------
(* Properties of the coercion *)

\* The number the cleaned text of a cell parses to, when it is one.
Parsed(v) == PyFloat(DropPercent(Clean(v)))

HasNum(v) == ~IsNa(v) /\ Parsed(v).k = "num"

\* C1: whatever the cell (null, number or text), the result of parse_val is
\* the unparseable marker or a number between 0 and 100, both included.
C1_InRange ==
    out # Pending =>
        \/ out = NaN
        \/ (out.k = "num" /\ 0 <= out.v /\ out.v <= 100 * Scale)

\* C1 witness: the text "150" has been coerced, to 100.
C1_Witness ==
    /\ cell = StrCell(<<"1", "5", "0">>)
    /\ out = Num(100 * Scale)

\* C2: a null cell, the empty text and every text that is not a number give
\* the unparseable marker (not a number such as 0).
C2_NonNumberUnparseable ==
    (out # Pending /\ ~HasNum(cell)) => out = NaN

\* C3: a text that parses to num with 0 <= num <= 1 gives num * 100.
C3_FractionScaled ==
    (out # Pending /\ cell.k = "str" /\ HasNum(cell)
        /\ 0 <= Parsed(cell).v /\ Parsed(cell).v <= Scale)
    => out = Num(Parsed(cell).v * 100)

\* C3 witness: the text "1" has been coerced, to 100.
C3_Witness ==
    /\ cell = StrCell(<<"1">>)
    /\ out = Num(100 * Scale)

\* C4: a text that parses to num outside [0, 1] is clamped and not rescaled:
\* above 100 gives 100, within (1, 100] gives num, below 0 gives 0.
C4_ClampedUnscaled ==
    (out # Pending /\ cell.k = "str" /\ HasNum(cell))
    => LET num == Parsed(cell).v
       IN  /\ num > 100 * Scale => out = Num(100 * Scale)
           /\ (num > Scale /\ num <= 100 * Scale) => out = Num(num)
           /\ num < 0 => out = Num(0)

\* C4 witness: the text "-5" has been coerced, to 0.
C4_Witness ==
    /\ cell = StrCell(<<"-", "5">>)
    /\ out = Num(0)

\* C5 as stated: coercing the text of a numeric result gives that result.
C5_Idempotent ==
    again # Pending => again = out

\* C5 amended: coercing the text of a numeric result that is 0 or greater
\* than 1 gives that result.
C5_IdempotentAboveOne ==
    (again # Pending /\ (out.v = 0 \/ out.v > Scale)) => again = out

\* C5 witness: "0.5" was coerced to 50, and "50.0" to 50 again.
C5_Witness ==
    /\ cell = StrCell(<<"0", ".", "5">>)
    /\ out = Num(50 * Scale)
    /\ again = Num(50 * Scale)

\* C6: a numeric text gives the same result with spaces added, the decimal
\* point written as a comma, and one "%" appended.
C6_DressingIgnored ==
    outDressed # Pending => outDressed = out

\* C6 witness: "0.5" written "0,5 %" has been coerced, to 50.
C6_Witness ==
    /\ cell = StrCell(<<"0", ".", "5">>)
    /\ dressed = StrCell(<<"0", ",", "5", " ", "%">>)
    /\ outDressed = Num(50 * Scale)

---------------------------------------------------------------------------
(* Properties of the classification *)

\* The keywords in the order the scan is said to take them.
C7_Order ==
    <<<<"l", "e", "a", "d">>,
      <<"c", "o", "n", "t", "a", "c", "t", "e", "d">>,
      <<"m", "e", "e", "t", "i", "n", "g">>,
      <<"p", "r", "o", "p", "o", "s", "a", "l">>,
      <<"n", "e", "g", "o", "t", "i", "a", "t", "i", "o", "n">>,
      <<"w", "a", "i", "t", "i", "n", "g">>,
      <<"c", "o", "n", "t", "r", "a", "c", "t">>,
      <<"w", "o", "n">>,
      <<"l", "o", "s", "t">>>>

\* The lower-cased Status then Comments of the record, those that are there
\* and not null, separated by a space.
C7_Text ==
    LET has(col) == col \in row.columns /\ row[col] # NullCell
        txt(col) == Lower(row[col].s)
    IN  IF has("Status") /\ has("Comments") THEN txt("Status") \o <<" ">> \o txt("Comments")
        ELSE IF has("Status") THEN txt("Status")
        ELSE IF has("Comments") THEN txt("Comments")
        ELSE <<>>

C7_Found == {i \in 1..Len(C7_Order) : Contains(C7_Text, C7_Order[i])}

\* C7: every record gets one label: Negotiation when the text holds
\* "contract" or "negotiation"; otherwise the first keyword of the fixed
\* order that the text holds; otherwise Unspecified.
C7_StageLabel ==
    stage # Pending =>
        IF Contains(C7_Text, <<"c", "o", "n", "t", "r", "a", "c", "t">>)
           \/ Contains(C7_Text, <<"n", "e", "g", "o", "t", "i", "a", "t", "i", "o", "n">>)
        THEN stage = Label(Negotiation)
        ELSE IF C7_Found # {}
        THEN \E i \in C7_Found :
                /\ \A j \in C7_Found : i <= j
                /\ stage = Label(Capitalize(C7_Order[i]))
        ELSE stage = Label(Unspecified)

\* C7 witness: Status "WON lead" with Comments "deal" has been labelled Lead.
C7_Witness ==
    /\ row = [columns |-> {"Status", "Comments"},
              Status |-> StrCell(<<"W", "O", "N", " ", "l", "e", "a", "d">>),
              Comments |-> StrCell(<<"d", "e", "a", "l">>)]
    /\ stage = Label(<<"L", "e", "a", "d">>)

---------------------------------------------------------------------------
(* Properties of the render pass *)

\* What the page shows under one tab.
TabElems(tab) == SelectSeq(screen, LAMBDA e : e.tab = tab)

Shows(tab, kind) == \E k \in 1..Len(screen) : screen[k].tab = tab /\ screen[k].kind = kind

\* Whether row i is among the rows of the element of this kind under tab 1,
\* and with which percentage.
C8_InView(kind, i, p) ==
    \E k \in 1..Len(screen) :
        /\ screen[k].tab = "Workstreams"
        /\ screen[k].kind = kind
        /\ \E j \in 1..Len(screen[k].rows) :
              /\ screen[k].rows[j].idx = i
              /\ screen[k].rows[j].pct = p

C8_InList(kind, i) ==
    \E k \in 1..Len(screen) :
        /\ screen[k].tab = "Workstreams"
        /\ screen[k].kind = kind
        /\ screen[k].idx = i

\* C8: once tab 1 is rendered, every row of Month Strategy is in the progress
\* list, in the bar chart and in the table: a row whose Status is unparseable
\* with the unparseable marker, any other row with its coerced number.
C8_EveryRowInEveryView ==
    Shows("Workstreams", "dataframe") =>
        LET sheet == uploaded.sheets[MonthStrategy]
            status == CHOOSE j \in 1..Len(sheet.columns) : Strip(sheet.columns[j]) = <<"Status">>
        IN  \A i \in 1..Len(sheet.rows) :
                LET p == parse_val(sheet.rows[i][status])
                IN  /\ C8_InList(IF p = NaN THEN "text_no_pct" ELSE "text_pct", i)
                    /\ C8_InView("bar_chart", i, p)
                    /\ C8_InView("dataframe", i, p)

\* The sheet with the spaces around its headers taken away.
C9_Unpadded(sheet) ==
    [columns |-> [j \in 1..Len(sheet.columns) |-> Strip(sheet.columns[j])],
     rows |-> sheet.rows]

C9_Named(sheet, names) ==
    \A i \in 1..Len(names) :
        \E j \in 1..Len(sheet.columns) : Strip(sheet.columns[j]) = names[i]

C9_Sort == IF sort_order \in SortOrders THEN sort_order ELSE "Workstream (A-Z)"

\* C9: for each of the three sheets, what its tab shows is what it shows for
\* the same sheet with unpadded headers, and a sheet whose headers, padded or
\* not, name every required column is not refused.
C9_PaddingIgnored ==
    /\ TabElems("Workstreams") # <<>> =>
          LET sheet == uploaded.sheets[MonthStrategy]
          IN  /\ TabElems("Workstreams") = Tab1(C9_Unpadded(sheet), C9_Sort).elems
              /\ C9_Named(sheet, expected_cols) =>
                    (Shows("Workstreams", "dataframe") /\ ~Shows("Workstreams", "error"))
    /\ TabElems("Reservations") # <<>> =>
          LET sheet == uploaded.sheets[Reservations]
          IN  /\ TabElems("Reservations") = Tab3(C9_Unpadded(sheet)).elems
              /\ C9_Named(sheet, required_cols) =>
                    (Shows("Reservations", "dataframe") /\ ~Shows("Reservations", "error"))
    /\ TabElems("Meetings") # <<>> =>
          LET sheet == uploaded.sheets[Meetings]
          IN  /\ TabElems("Meetings") = Tab4(C9_Unpadded(sheet)).elems
              /\ C9_Named(sheet, meeting_cols) =>
                    (Shows("Meetings", "dataframe") /\ ~Shows("Meetings", "error"))

\* C9 witness: the pass is through with every header of the three sheets
\* padded on both sides (" Status  "), and each tab shows its table.
C9_Witness ==
    /\ pc = "done"
    /\ uploaded.sheets[MonthStrategy].columns[2] = <<" ", "Status", " ", " ">>
    /\ uploaded.sheets[Reservations].columns[3] = <<" ", "Amount", " ", "(MAD)", " ", " ">>
    /\ uploaded.sheets[Meetings].columns[1] = <<" ", "Company", " ", " ">>
    /\ Shows("Workstreams", "bar_chart")
    /\ Shows("Reservations", "dataframe")
    /\ Shows("Meetings", "dataframe")

\* The first required name that no header of the sheet gives (0: none).
C10_Lacks(sheet, names) ==
    IF C9_Named(sheet, names) THEN 0
    ELSE CHOOSE i \in 1..Len(names) :
            /\ ~C9_Named(sheet, <<names[i]>>)
            /\ \A h \in 1..(i - 1) : C9_Named(sheet, <<names[h]>>)

\* The step of the pass at which the upload is refused ("none": nowhere).
C10_FailPoint ==
    IF uploaded.k = "none" THEN "upload"
    ELSE IF ~uploaded.readable THEN "sheets"
    ELSE IF \E s \in AllSheets : s \notin DOMAIN uploaded.sheets THEN "sheets"
    ELSE IF C10_Lacks(uploaded.sheets[MonthStrategy], expected_cols) # 0 THEN "tab1"
    ELSE IF C10_Lacks(uploaded.sheets[Reservations], required_cols) # 0 THEN "tab3"
    ELSE IF C10_Lacks(uploaded.sheets[Meetings], meeting_cols) # 0 THEN "tab4"
    ELSE "none"

C10_Rank(step) ==
    CASE step = "upload" -> 1
      [] step = "sheets" -> 2
      [] step \in {"tab1", "Workstreams"} -> 3
      [] step \in {"tab3", "Reservations"} -> 4
      [] step \in {"tab4", "Meetings"} -> 5
      [] OTHER -> 6

\* The message the refusal at the fail point shows.
C10_IsRefusal(e) ==
    CASE C10_FailPoint = "upload" -> e.tab = "page" /\ e.kind = "info"
      [] C10_FailPoint = "sheets" -> e.tab = "page" /\ e.kind \in {"error_read", "error_sheets"}
      [] C10_FailPoint = "tab1" ->
            e = ColumnError("Workstreams", MonthStrategy,
                    expected_cols[C10_Lacks(uploaded.sheets[MonthStrategy], expected_cols)])
      [] C10_FailPoint = "tab3" ->
            e = ColumnError("Reservations", Reservations,
                    required_cols[C10_Lacks(uploaded.sheets[Reservations], required_cols)])
      [] C10_FailPoint = "tab4" ->
            e = ColumnError("Meetings", Meetings,
                    meeting_cols[C10_Lacks(uploaded.sheets[Meetings], meeting_cols)])
      [] OTHER -> FALSE

\* C10: the pass never goes beyond the first structural error (no upload, an
\* unreadable file or a missing sheet, then a missing column of tab 1, 3, 4 in
\* that order); it stops there, the last thing shown being the message that
\* names it; nothing of the failing tab but its heading and that message, and
\* nothing of a later tab, is ever shown; the tabs before it keep their table.
C10_StopsAtFirstError ==
    /\ pc # "stopped" => C10_Rank(pc) <= C10_Rank(C10_FailPoint)
    /\ pc = "stopped" =>
          /\ C10_FailPoint # "none"
          /\ C10_IsRefusal(screen[Len(screen)])
          /\ ~ENABLED NextRender
    /\ \A k \in 1..Len(screen) :
          screen[k].tab # "page" =>
              /\ C10_FailPoint \notin {"upload", "sheets"}
              /\ C10_Rank(screen[k].tab) <= C10_Rank(C10_FailPoint)
              /\ C10_Rank(screen[k].tab) = C10_Rank(C10_FailPoint)
                    => screen[k].kind \in {"subheader", "error"}
    /\ \A tab \in {"Workstreams", "Reservations", "Meetings"} :
          (C10_Rank(tab) < C10_Rank(C10_FailPoint)
             /\ (pc = "stopped" \/ C10_Rank(tab) < C10_Rank(pc)))
          => Shows(tab, "dataframe")

\* C10 witness: Reservations lacks "Nights"; the pass has stopped on the
\* message naming it, with the table of tab 1 still shown.
C10_Witness ==
    /\ pc = "stopped"
    /\ C10_FailPoint = "tab3"
    /\ screen[Len(screen)] = ColumnError("Reservations", Reservations, <<"Nights">>)
    /\ Shows("Workstreams", "dataframe")
    /\ ~Shows("Meetings", "subheader")

====
